---- MODULE Spec2Model ----
(***************************************************************************)
(* Model of the grid spatial index of the wasm-html-builder module         *)
(* (spatial_index.rs): SpatialGrid, SpatialIndexManager and the three      *)
(* std::sync::Mutex guards around grid, element_map and stats.             *)
(*                                                                         *)
(* Coordinates and cell sizes are integers (the source uses f64), so floor  *)
(* and ceil of a quotient are exact.  Distances are                        *)
(* kept squared, which preserves every comparison the source makes on      *)
(* non-negative distances.  An "as usize" cast of a negative float         *)
(* saturates to 0.                                                         *)
(***************************************************************************)
EXTENDS Integers, Sequences, FiniteSets, TLC

\* ------------------------------------------------------------------ bounds
NumIds == 2
MaxCoord == 3
MaxSize == 2
MaxY == 1
BoxHeight == 2
MaxLen == 3
MaxDist == 3
MaxQueryMs == 1
UniverseSize == 4
ManyItems == 1200
InitCellSize == 2
MidSide == 100
BigSide == 1000
MaxEntriesTried == 2
MaxImportLen == 3

MinCoord == 0 - 1

\* ------------------------------------------------------- program constants
DefaultCellSize == 100
MinCellSize == 50
MaxCellSize == 500
TargetElementsPerCell == 10
OptimizeMinElements == 1000
OptimizeAvgPerCell == 100
OptimizeMaxPerCell == 200
DefaultBoundsSize == 2000
BytesPerCell == 8
\* usize::MAX, which an "as usize" cast of +inf yields; here the largest
\* integer the checker represents
UsizeMax == 2147483647
DefaultMaxEntries == 50

\* ------------------------------------------------------------- input sets
Ids == 1..NumIds
Coords == MinCoord..MaxCoord
Boxes == [x : Coords, y : 0..MaxY, width : 0..MaxSize, height : {BoxHeight}]
Elements == [id : Ids, x : Coords, y : 0..MaxY, width : 0..MaxSize, height : {BoxHeight}]
Points == [x : MinCoord..(MaxCoord + 1), y : MinCoord..(MaxCoord + 1)]
Universe(w, h) == [x |-> 0, y |-> 0, width |-> w, height |-> h]
Universes == {Universe(UniverseSize, UniverseSize), Universe(UniverseSize - InitCellSize, UniverseSize)}
\* the cell sizes handed to the constructor and to rebuild
CellSizes == {0 - 1, 0, InitCellSize}
\* the element lists handed to rebuild: two ids; boxes of the top row band,
\* one cell wide across the first cell boundary, or starting on that boundary
\* with no width (first id only) or one cell wide
ListElements ==
  {e \in Elements : /\ e.id \in {1, NumIds}
                    /\ e.y = 0
                    /\ \/ e.x = InitCellSize - 1 /\ e.width = InitCellSize
                       \/ e.x = InitCellSize /\ e.width \in {0, InitCellSize}
                    /\ e.width = 0 => e.id = 1}
ElementLists == UNION {[1..n -> ListElements] : n \in 0..MaxLen}

\* Inputs used when two execution contexts run (a small set keeps the
\* interleavings tractable).
ConcElements ==
  {e \in Elements : e.id \in {1, NumIds} /\ e.y = 0 /\ e.width = 1 /\ e.x \in {0, InitCellSize}}
ConcLists == UNION {[1..n -> ConcElements] : n \in 0..1}
\* Lists of items large enough for the computed cell size to leave the lower
\* clamp: one mid-sized item, one big item, a mid-sized and an empty item
WideElement(id, side) == [id |-> id, x |-> 0, y |-> 0, width |-> side, height |-> side]
WideLists ==
  {<<WideElement(1, MidSide)>>, <<WideElement(1, BigSide)>>,
   <<WideElement(1, MidSide), WideElement(NumIds, 0)>>}
\* Lists of three items for a grid of unit cells: an item in the last column,
\* and items without width or one cell wide at the left edge
RingElements ==
  {e \in Elements : /\ e.id \in {1, NumIds}
                    /\ e.y = 0
                    /\ <<e.x, e.width>> \in {<<UniverseSize - 1, 1>>, <<0, 0>>, <<0, 1>>}}
RingLists == {<<a, b, c>> : a \in RingElements, b \in RingElements, c \in RingElements}
\* ManyItems items with distinct ids that all fill the first cell
ManyItemsList ==
  [i \in 1..ManyItems |-> [id |-> i, x |-> 0, y |-> 0, width |-> 1, height |-> BoxHeight]]

\* ---------------------------------------------------------------- helpers
Max(a, b) == IF a >= b THEN a ELSE b
Min(a, b) == IF a <= b THEN a ELSE b
\* floor(n / d) and ceil(n / d) for d # 0
Floor(n, d) == n \div d
Ceil(n, d) == 0 - ((0 - n) \div d)
\* f64 -> usize cast: negative values saturate to 0
UsizeOf(n) == Max(0, n)
BoxOf(e) == [x |-> e.x, y |-> e.y, width |-> e.width, height |-> e.height]

\* ------------------------------------------------------------ SpatialGrid
\* (extent / cell_size).ceil() as usize; with cell_size = 0 the quotient is
\* +inf for a positive extent (cast: usize::MAX) and NaN for extent 0 (cast: 0)
CellCount(extent, cell_size) ==
  IF cell_size = 0 THEN (IF extent > 0 THEN UsizeMax ELSE 0)
  ELSE UsizeOf(Ceil(extent, cell_size))

\* Vec::with_capacity(rows), or with_capacity(cols) for the first row, panics
\* with "capacity overflow"
AllocFails(rows, cols) == rows = UsizeMax \/ (rows > 0 /\ cols = UsizeMax)

\* SpatialGrid::new.  When the allocation panics no grid exists; the record
\* then carries the geometry computed before the panic and no cells.
NewGrid(bounds, cell_size) ==
  LET cols == CellCount(bounds.width, cell_size)
      rows == CellCount(bounds.height, cell_size)
  IN [cell_size |-> cell_size, cols |-> cols, rows |-> rows, bounds |-> bounds,
      cells |-> IF AllocFails(rows, cols) THEN [rc \in {} |-> {}]
                ELSE [rc \in (0..(rows - 1)) \X (0..(cols - 1)) |-> {}]]

\* Option<(row, col)> as a set with at most one member
get_cell_coords(g, x, y) ==
  LET col == UsizeOf(Floor(x - g.bounds.x, g.cell_size))
      row == UsizeOf(Floor(y - g.bounds.y, g.cell_size))
  IN IF row < g.rows /\ col < g.cols THEN {<<row, col>>} ELSE {}

get_intersecting_cells(g, x, y, width, height) ==
  LET start_col == UsizeOf(Floor(x - g.bounds.x, g.cell_size))
      end_col == UsizeOf(Ceil(x + width - g.bounds.x, g.cell_size))
      start_row == UsizeOf(Floor(y - g.bounds.y, g.cell_size))
      end_row == UsizeOf(Ceil(y + height - g.bounds.y, g.cell_size))
  IN (start_row..(Min(end_row, g.rows) - 1)) \X (start_col..(Min(end_col, g.cols) - 1))

Grid_add_element(g, id, x, y, width, height) ==
  LET cs == get_intersecting_cells(g, x, y, width, height)
  IN [g EXCEPT !.cells = [rc \in DOMAIN g.cells |->
        IF rc \in cs THEN g.cells[rc] \cup {id} ELSE g.cells[rc]]]

Grid_remove_element(g, id) ==
  [g EXCEPT !.cells = [rc \in DOMAIN g.cells |-> g.cells[rc] \ {id}]]

Grid_update_element(g, id, old, new) ==
  LET old_cells == get_intersecting_cells(g, old.x, old.y, old.width, old.height)
      removed == [g EXCEPT !.cells = [rc \in DOMAIN g.cells |->
                    IF rc \in old_cells THEN g.cells[rc] \ {id} ELSE g.cells[rc]]]
  IN Grid_add_element(removed, id, new.x, new.y, new.width, new.height)

\* ------------------------------------------------- manager: pure helpers
\* elements_intersect with closed intervals: touching boxes intersect
elements_intersect_closed(x1, y1, w1, h1, x2, y2, w2, h2) ==
  x1 <= x2 + w2 /\ x1 + w1 >= x2 /\ y1 <= y2 + h2 /\ y1 + h1 >= y2

elements_intersect(x1, y1, w1, h1, x2, y2, w2, h2) ==
  x1 < x2 + w2 /\ x1 + w1 > x2 /\ y1 < y2 + h2 /\ y1 + h1 > y2

point_in_element(px, py, ex, ey, ew, eh) ==
  px >= ex /\ px <= ex + ew /\ py >= ey /\ py <= ey + eh

\* distance_to_element, squared (the source takes the square root of this)
distance_to_element(px, py, e) ==
  LET dx == Max(Max(px - e.x, 0), e.x + e.width - px)
      dy == Max(Max(py - e.y, 0), e.y + e.height - py)
  IN dx * dx + dy * dy

\* element_map.insert
MapInsert(m, e) == [i \in (DOMAIN m) \cup {e.id} |-> IF i = e.id THEN e ELSE m[i]]
\* element_map.remove
MapRemove(m, id) == [i \in (DOMAIN m) \ {id} |-> m[i]]
EmptyMap == [i \in {} |-> 0]


\* ------------------------------------------------------ manager: queries
\* A query result (a Vec<Element>) is kept as the number of times each id
\* occurs in it; the order of a HashSet iteration never changes these counts.

\* row-major order, in which get_intersecting_cells lists its cells
CellBefore(a, b) == a[1] < b[1] \/ (a[1] = b[1] /\ a[2] <= b[2])

\* seen_ids that never holds an id
seen_ids_contains_never(g, cells, rc, id, pushed) == FALSE

\* seen_ids.contains(id) when the loop reaches cell rc: the id was met in an
\* earlier cell and pushed there (only a pushed id is inserted)
seen_ids_contains(g, cells, rc, id, pushed) ==
  pushed /\ \E o \in cells : o # rc /\ CellBefore(o, rc) /\ id \in g.cells[o]

\* query_region: one push for each candidate cell that holds the id, unless
\* seen_ids has it, the Registry lacks it or its box fails elements_intersect
query_region(g, m, x, y, width, height) ==
  LET cells == get_intersecting_cells(g, x, y, width, height)
      passes(id) == /\ id \in DOMAIN m
                    /\ elements_intersect(m[id].x, m[id].y, m[id].width, m[id].height,
                                          x, y, width, height)
      n(id) == Cardinality({rc \in cells :
                  /\ id \in g.cells[rc]
                  /\ ~seen_ids_contains(g, cells, rc, id, passes(id))
                  /\ passes(id)})
  IN [id \in Ids |-> n(id)]

find_at_point(g, m, x, y) ==
  LET cc == get_cell_coords(g, x, y)
      hit(id) == /\ \E rc \in cc : id \in g.cells[rc]
                 /\ id \in DOMAIN m
                 /\ point_in_element(x, y, m[id].x, m[id].y, m[id].width, m[id].height)
  IN [id \in Ids |-> IF hit(id) THEN 1 ELSE 0]

\* detect_collisions: one push per candidate cell that holds the other id
detect_collisions(g, m, element) ==
  LET cells == get_intersecting_cells(g, element.x, element.y, element.width, element.height)
      n(id) == IF /\ id # element.id
                  /\ id \in DOMAIN m
                  /\ elements_intersect(element.x, element.y, element.width, element.height,
                                        m[id].x, m[id].y, m[id].width, m[id].height)
               THEN Cardinality({rc \in cells : id \in g.cells[rc]})
               ELSE 0
  IN [id \in Ids |-> n(id)]

Abs(n) == IF n < 0 THEN 0 - n ELSE n
\* the cells the inner loops of find_nearest reach at one radius
RingCells(g, start, radius) ==
  {rc \in DOMAIN g.cells :
     Max(Abs(rc[1] - start[1]), Abs(rc[2] - start[2])) = radius}

\* One radius of find_nearest.  acc = [min: squared min_distance,
\* nearest: the ids nearest_element may hold ({} is None)].  Within a cell the
\* HashSet order is arbitrary, so any element of the first cell that reaches
\* the ring's minimum may be the one kept.
find_nearest_ring(g, m, x, y, start, radius, acc) ==
  LET ring == RingCells(g, start, radius)
      cand == {id \in DOMAIN m : \E rc \in ring : id \in g.cells[rc]}
      better == {id \in cand : distance_to_element(x, y, m[id]) < acc.min}
  IN IF better = {} THEN acc
     ELSE LET best == CHOOSE d \in {distance_to_element(x, y, m[id]) : id \in better} :
                        \A id \in better : d <= distance_to_element(x, y, m[id])
              reach == {id \in better : distance_to_element(x, y, m[id]) = best}
              holds(rc) == \E id \in reach : id \in g.cells[rc]
              first == CHOOSE rc \in ring :
                         holds(rc) /\ \A o \in ring : holds(o) => CellBefore(rc, o)
          IN [min |-> best, nearest |-> reach \cap g.cells[first]]

\* The radius loop of find_nearest from one radius on: what it ends with
\* (min, nearest), the last radius it examined and whether it ended by the
\* break.
RECURSIVE find_nearest_scan(_, _, _, _, _, _, _, _)
find_nearest_scan(g, m, x, y, start, max_radius, radius, acc) ==
  IF radius > max_radius
  THEN [min |-> acc.min, nearest |-> acc.nearest, radius |-> radius - 1, early |-> FALSE]
  ELSE LET a == find_nearest_ring(g, m, x, y, start, radius, acc)
           reachd == radius * g.cell_size
       IN IF a.nearest # {} /\ a.min <= reachd * reachd
          THEN [min |-> a.min, nearest |-> a.nearest, radius |-> radius, early |-> TRUE]
          ELSE find_nearest_scan(g, m, x, y, start, max_radius, radius + 1, a)

find_nearest_from(g, m, x, y, start, max_radius, radius, acc) ==
  find_nearest_scan(g, m, x, y, start, max_radius, radius, acc).nearest

\* find_nearest with min_distance starting without a limit
find_nearest_unlimited(g, m, x, y, max_distance) ==
  LET sc == get_cell_coords(g, x, y)
  IN IF sc = {} THEN {0}
     ELSE LET start == CHOOSE s \in sc : TRUE
              max_radius == UsizeOf(Ceil(max_distance, g.cell_size))
              res == find_nearest_from(g, m, x, y, start, max_radius, 0,
                       [min |-> UsizeMax, nearest |-> {}])
          IN IF res = {} THEN {0} ELSE res

\* find_nearest: the set of ids it may return; 0 stands for "null"
find_nearest(g, m, x, y, max_distance) ==
  LET sc == get_cell_coords(g, x, y)
  IN IF sc = {} THEN {0}
     ELSE LET start == CHOOSE s \in sc : TRUE
              max_radius == UsizeOf(Ceil(max_distance, g.cell_size))
              res == find_nearest_from(g, m, x, y, start, max_radius, 0,
                       [min |-> max_distance * max_distance, nearest |-> {}])
          IN IF res = {} THEN {0} ELSE res

\* ------------------------------------------------ manager: rebuild, stats
RECURSIVE SumArea(_, _)
SumArea(elements, i) ==
  IF i > Len(elements) THEN 0
  ELSE elements[i].width * elements[i].height + SumArea(elements, i + 1)

\* calculate_optimal_cell_size without the upper clamp
calculate_optimal_cell_size_no_upper_clamp(elements) ==
  IF Len(elements) = 0 THEN DefaultCellSize
  ELSE LET target_num == SumArea(elements, 1) * TargetElementsPerCell
           count == Len(elements)
       IN IF target_num <= MinCellSize * MinCellSize * count THEN MinCellSize
          ELSE CHOOSE r \in MinCellSize..(4 * BigSide) :
                 r * r * count <= target_num /\ target_num < (r + 1) * (r + 1) * count

\* calculate_optimal_cell_size: clamp(sqrt(avg_area * 10), 50, 500); between
\* the clamps the square root is taken to the integer below
calculate_optimal_cell_size(elements) ==
  IF Len(elements) = 0 THEN DefaultCellSize
  ELSE LET target_num == SumArea(elements, 1) * TargetElementsPerCell
           count == Len(elements)
       IN IF target_num <= MinCellSize * MinCellSize * count THEN MinCellSize
          ELSE IF target_num >= MaxCellSize * MaxCellSize * count THEN MaxCellSize
          ELSE CHOOSE r \in MinCellSize..MaxCellSize :
                 r * r * count <= target_num /\ target_num < (r + 1) * (r + 1) * count

\* grid.add_element for elements[i], elements[i + 1], ...: each call puts the
\* element's id into the cells of the element's box and changes nothing else,
\* so a cell ends with the ids of all the elements whose box reaches it
AddAll(g, elements, i) ==
  LET cells_of == [k \in i..Len(elements) |->
                     get_intersecting_cells(g, elements[k].x, elements[k].y,
                                            elements[k].width, elements[k].height)]
  IN [g EXCEPT !.cells = [rc \in DOMAIN g.cells |->
        g.cells[rc] \cup {elements[k].id : k \in {j \in i..Len(elements) : rc \in cells_of[j]}}]]

\* element_map.insert for elements[lo], ..., elements[hi] into an empty map:
\* the entry of a later element replaces that of an earlier one with its id
\* (the range is split in halves to keep the evaluation shallow)
RECURSIVE InsertRange(_, _, _)
InsertRange(elements, lo, hi) ==
  IF lo > hi THEN EmptyMap
  ELSE IF lo = hi THEN elements[lo].id :> elements[lo]
  ELSE LET mid == (lo + hi) \div 2
       IN InsertRange(elements, mid + 1, hi) @@ InsertRange(elements, lo, mid)

\* element_map.insert for elements[i], elements[i + 1], ... into m
InsertAll(m, elements, i) == InsertRange(elements, i, Len(elements)) @@ m

\* the grid rebuild installs
rebuild_grid(elements, bounds, cell_size) ==
  LET final_cell_size == IF cell_size <= 0 THEN calculate_optimal_cell_size(elements)
                         ELSE cell_size
  IN AddAll(NewGrid(bounds, final_cell_size), elements, 1)

\* rebuild_map that leaves out the last element of the list
rebuild_map_skip_last(elements) ==
  InsertAll(EmptyMap, SubSeq(elements, 1, Len(elements) - 1), 1)

\* the element_map rebuild installs
rebuild_map(elements) == InsertAll(EmptyMap, elements, 1)

RECURSIVE SumCells(_, _)
SumCells(g, rcs) ==
  IF rcs = {} THEN 0
  ELSE LET rc == CHOOSE c \in rcs : TRUE
       IN Cardinality(g.cells[rc]) + SumCells(g, rcs \ {rc})

\* the stats SpatialIndexManager::new stores
InitStats(g) ==
  [total_elements |-> 0, total_cells |-> g.rows * g.cols, occupied_cells |-> 0,
   average_elements_per_cell |-> <<0, 1>>, max_elements_per_cell |-> 0,
   memory_usage_bytes |-> g.rows * g.cols * BytesPerCell, last_query_time_ms |-> 0]

\* the body of update_stats; the average is kept as <<numerator, denominator>>
compute_stats(g, m, old) ==
  LET occ == {rc \in DOMAIN g.cells : g.cells[rc] # {}}
      maxc == IF occ = {} THEN 0
              ELSE CHOOSE n \in {Cardinality(g.cells[rc]) : rc \in occ} :
                     \A rc \in occ : n >= Cardinality(g.cells[rc])
  IN [total_elements |-> Cardinality(DOMAIN m), total_cells |-> g.rows * g.cols,
      occupied_cells |-> Cardinality(occ),
      average_elements_per_cell |->
         IF occ = {} THEN <<0, 1>> ELSE <<SumCells(g, occ), Cardinality(occ)>>,
      max_elements_per_cell |-> maxc,
      memory_usage_bytes |-> g.rows * g.cols * BytesPerCell,
      last_query_time_ms |-> old.last_query_time_ms]

\* element_map.values().cloned().collect(): the registry's elements, here in
\* increasing id order (ids are distinct, so the order changes nothing rebuild
\* computes)
RECURSIVE Snapshot(_, _)
Snapshot(m, ids) ==
  IF ids = {} THEN <<>>
  ELSE LET i == CHOOSE j \in ids : \A k \in ids : j <= k
       IN <<m[i]>> \o Snapshot(m, ids \ {i})


\* ------------------------------------------------------------------ state
VARIABLES
  grid,         \* SpatialIndexManager.grid: the SpatialGrid
  element_map,  \* SpatialIndexManager.element_map: id -> Element
  stats,        \* SpatialIndexManager.stats: SpatialIndexStats
  locks,        \* holder of each Mutex (0: unlocked)
  pc,           \* per execution context: where its current call stands
  op,           \* per execution context: the call in progress and its arguments
  ret,          \* per execution context: what its last finished call returned
  torn,         \* a query has read while a mutation stood between its two writes
  entries,      \* StyleHistory.entries: the styles of the entries, oldest first
  max_entries,  \* StyleHistory.max_entries
  appended,     \* the styles put into the history since it was last emptied or
                \* imported, oldest first (the last MaxEntriesTried of them)
  call          \* the last StyleHistory call, its argument and the entries before it

vars == <<grid, element_map, stats, locks, pc, op, ret, torn,
          entries, max_entries, appended, call>>
index_vars == <<grid, element_map, stats, locks, pc, op, ret, torn>>
style_vars == <<entries, max_entries, appended, call>>

\* ----------------------------------------------------------- StyleHistory
\* An ElementStyle.  styles_equal compares eighteen fields; font_size (a
\* float) stands for them, the other seventeen are the same in every style of
\* the model.  stroke.position and stroke.style are the two fields it does
\* not compare.  The timestamp of an entry is never read and is left out.
NaN == 0 - 1
FontSizes == {NaN, 12, 14}
Styles ==
  {s \in [font_size : FontSizes, stroke_position : {"center", "inside"},
          stroke_style : {"solid", "dashed"}] :
     s.stroke_style = "solid" \/ (s.font_size = 12 /\ s.stroke_position = "center")}

\* == on f64: NaN equals nothing
FloatEq(a, b) == a # NaN /\ b # NaN /\ a = b

styles_equal(a, b) == FloatEq(a.font_size, b.font_size)

\* Vec::remove(0)
RemoveFirst(es) == SubSeq(es, 2, Len(es))
\* the last n entries of es
LastN(es, n) == IF Len(es) > n THEN SubSeq(es, Len(es) - n + 1, Len(es)) ELSE es

\* add_style returns before it pushes
add_style_skips(es, style) == es # <<>> /\ styles_equal(es[Len(es)], style)

\* add_style that never removes the oldest entry
add_style_entries_no_evict(es, n, style) ==
  IF add_style_skips(es, style) THEN es ELSE Append(es, style)

\* the entries add_style leaves
add_style_entries(es, n, style) ==
  IF add_style_skips(es, style) THEN es
  ELSE LET pushed == Append(es, style)
       IN IF Len(pushed) > n THEN RemoveFirst(pushed) ELSE pushed

\* the entries a successful import_from_base64 leaves
import_entries(decoded, n) == LastN(decoded, n)

\* get_last_style: Option<ElementStyle> as a set with at most one member
get_last_style(es) == IF es = <<>> THEN {} ELSE {es[Len(es)]}

\* what import_from_base64 is handed: data that fails to decode, decompress
\* or deserialize, or data that decodes to a list of entries
ImportStyles == {s \in Styles : s.font_size # NaN /\ s.stroke_position = "center"
                                 /\ s.stroke_style = "solid"}
ImportData ==
  {[ok |-> FALSE, decoded |-> <<>>]} \cup
    {[ok |-> TRUE, decoded |-> l] : l \in UNION {[1..k -> ImportStyles] : k \in 0..MaxImportLen}}

NoCall == [kind |-> "none", before |-> <<>>]

\* the execution contexts; one that issues no call stays "absent"
Threads == {1, 2}
Concurrent == \A t \in Threads : pc[t] # "absent"
InElements == IF Concurrent THEN ConcElements ELSE Elements
InLists == IF Concurrent THEN ConcLists ELSE ElementLists
InBoxes == {BoxOf(e) : e \in InElements}
InPoints == IF Concurrent THEN {p \in Points : p.x = 0 /\ p.y = 0} ELSE Points
InDists == IF Concurrent THEN {1} ELSE 0..MaxDist

\* the arguments of rebuild: list, bounds, cell size
RebuildInputs ==
  (InLists \X Universes \X CellSizes) \cup
    (IF Concurrent
     THEN {<<ManyItemsList, Universe(UniverseSize, UniverseSize), InitCellSize>>}
     ELSE (WideLists \X {Universe(UniverseSize, UniverseSize)} \X {0}) \cup
          (RingLists \X {Universe(UniverseSize, UniverseSize)} \X {1}))

NoOp == [kind |-> "none"]
NoRet == [kind |-> "none"]
Mutations == {"add_element", "remove_element", "update_element", "rebuild",
              "update_bounds", "auto_optimize"}
\* a second lock() of a std::sync::Mutex by the thread that holds it either
\* never returns (pc "blocked") or panics (pc "panicked": the panic aborts
\* the caller, which issues no further call); neither hands the mutex back
RelockOutcomes == {"blocked", "panicked"}

\* SpatialIndexManager::new has returned a manager
Constructed == ~AllocFails(grid.rows, grid.cols)
\* the stats of a manager that was never built
NoStats ==
  [total_elements |-> 0, total_cells |-> 0, occupied_cells |-> 0,
   average_elements_per_cell |-> <<0, 1>>, max_elements_per_cell |-> 0,
   memory_usage_bytes |-> 0, last_query_time_ms |-> 0]

\* SpatialIndexManager::new(bounds, cell_size), called by the contexts T; a
\* constructor that panics leaves its caller at "new_panicked" with no manager
InitWith(T, sizes) ==
  /\ \E b \in Universes, cs \in sizes : grid = NewGrid(b, cs)
  /\ element_map = EmptyMap
  /\ stats = IF Constructed THEN InitStats(grid) ELSE NoStats
  /\ locks = [grid |-> 0, element_map |-> 0, stats |-> 0]
  /\ pc = [t \in Threads |-> IF t \notin T THEN "absent"
                            ELSE IF Constructed THEN "idle" ELSE "new_panicked"]
  /\ op = [t \in Threads |-> NoOp]
  /\ ret = [t \in Threads |-> NoRet]
  /\ torn = FALSE

\* StyleHistory::new(max_entries)
NewHistory(n) ==
  /\ entries = <<>>
  /\ max_entries = n
  /\ appended = <<>>
  /\ call = NoCall

\* the index, and beside it a StyleHistory::default() that nothing calls
Init == InitWith({1}, CellSizes) /\ NewHistory(DefaultMaxEntries)
InitConc == InitWith({1, 2}, {InitCellSize}) /\ NewHistory(DefaultMaxEntries)
\* a StyleHistory of each limit tried, beside an index that nothing calls
InitStyle ==
  /\ InitWith({}, {InitCellSize})
  /\ grid.bounds = Universe(UniverseSize, UniverseSize)
  /\ \E n \in 0..MaxEntriesTried : NewHistory(n)

\* ------------------------------------------------------------ call entry
Begin(t, o, first) ==
  /\ pc' = [pc EXCEPT ![t] = first]
  /\ op' = [op EXCEPT ![t] = o]
  /\ ret' = [ret EXCEPT ![t] = NoRet]
  /\ UNCHANGED <<grid, element_map, stats, locks, torn>>
  /\ UNCHANGED style_vars

add_element(t) ==
  /\ pc[t] = "idle"
  /\ \E e \in InElements : Begin(t, [kind |-> "add_element", element |-> e], "lock_grid")

remove_element(t) ==
  /\ pc[t] = "idle"
  /\ \E id \in Ids : Begin(t, [kind |-> "remove_element", element_id |-> id], "lock_grid")

update_element(t) ==
  /\ pc[t] = "idle"
  /\ \E id \in Ids, e \in InElements :
    Begin(t, [kind |-> "update_element", element_id |-> id, new_element |-> e], "lock_grid")

rebuild(t) ==
  /\ pc[t] = "idle"
  /\ \E i \in RebuildInputs :
    Begin(t, [kind |-> "rebuild", elements |-> i[1], bounds |-> i[2], cell_size |-> i[3]],
          "lock_grid")

update_bounds(t) ==
  /\ pc[t] = "idle"
  /\ \E b \in Universes : Begin(t, [kind |-> "update_bounds", bounds |-> b], "snapshot")

query_region_call(t) ==
  /\ pc[t] = "idle"
  /\ \E b \in InBoxes : Begin(t, [kind |-> "query_region", box |-> b], "lock_grid")

find_at_point_call(t) ==
  /\ pc[t] = "idle"
  /\ \E p \in InPoints : Begin(t, [kind |-> "find_at_point", x |-> p.x, y |-> p.y], "lock_grid")

find_nearest_call(t) ==
  /\ pc[t] = "idle"
  /\ \E p \in InPoints, d \in InDists :
    Begin(t, [kind |-> "find_nearest", x |-> p.x, y |-> p.y, max_distance |-> d],
          "lock_grid")

detect_collisions_call(t) ==
  /\ pc[t] = "idle"
  /\ \E e \in InElements :
    Begin(t, [kind |-> "detect_collisions", element |-> e], "lock_grid")

\* the test auto_optimize makes on a statistics record
NeedsOptimize(st) ==
  /\ st.total_elements > OptimizeMinElements
  /\ \/ st.average_elements_per_cell[1] > OptimizeAvgPerCell * st.average_elements_per_cell[2]
     \/ st.max_elements_per_cell > OptimizeMaxPerCell

\* get_stats: lock stats, serialise, unlock
get_stats(t) ==
  /\ pc[t] = "idle"
  /\ locks.stats = 0
  /\ ret' = [ret EXCEPT ![t] = [kind |-> "get_stats", val |-> stats]]
  /\ op' = [op EXCEPT ![t] = NoOp]
  /\ UNCHANGED <<grid, element_map, stats, locks, pc, torn>>
  /\ UNCHANGED style_vars

\* auto_optimize that rebuilds whatever the statistics say
auto_optimize_ungated(t) ==
  /\ pc[t] = "idle"
  /\ locks.stats = 0
  /\ pc' = [pc EXCEPT ![t] = "snapshot"]
  /\ op' = [op EXCEPT ![t] = [kind |-> "auto_optimize"]]
  /\ ret' = [ret EXCEPT ![t] = NoRet]
  /\ UNCHANGED <<grid, element_map, stats, locks, torn>>
  /\ UNCHANGED style_vars

\* auto_optimize up to its decision: get_stats, then the threshold test
auto_optimize(t) ==
  /\ pc[t] = "idle"
  /\ locks.stats = 0
  /\ IF NeedsOptimize(stats)
     THEN /\ pc' = [pc EXCEPT ![t] = "snapshot"]
          /\ op' = [op EXCEPT ![t] = [kind |-> "auto_optimize"]]
          /\ ret' = [ret EXCEPT ![t] = NoRet]
     ELSE /\ ret' = [ret EXCEPT ![t] = [kind |-> "auto_optimize", val |-> FALSE]]
          /\ op' = [op EXCEPT ![t] = NoOp]
          /\ UNCHANGED pc
  /\ UNCHANGED <<grid, element_map, stats, locks, torn>>
  /\ UNCHANGED style_vars

\* ------------------------------------------------------------------ steps
\* Lock without mutual exclusion: the caller goes on whoever holds the mutex
Lock_no_exclusion(t, mutex, next) ==
  /\ pc' = [pc EXCEPT ![t] = next]
  /\ locks' = [locks EXCEPT ![mutex] = t]

\* Lock with the grid and the element_map mutex taken for each other
Lock_registry_first(t, mutex, next) ==
  LET taken == CASE mutex = "grid" -> "element_map"
                 [] mutex = "element_map" -> "grid"
                 [] OTHER -> mutex
  IN /\ locks[taken] \in {0, t}
     /\ IF locks[taken] = t
        THEN /\ \E o \in RelockOutcomes : pc' = [pc EXCEPT ![t] = o]
             /\ UNCHANGED locks
        ELSE /\ pc' = [pc EXCEPT ![t] = next]
             /\ locks' = [locks EXCEPT ![taken] = t]

\* Mutex::lock by t, then continue at next
Lock(t, mutex, next) ==
  /\ locks[mutex] \in {0, t}
  /\ IF locks[mutex] = t
     THEN /\ \E o \in RelockOutcomes : pc' = [pc EXCEPT ![t] = o]
          /\ UNCHANGED locks
     ELSE /\ pc' = [pc EXCEPT ![t] = next]
          /\ locks' = [locks EXCEPT ![mutex] = t]

\* let grid = self.grid.lock().unwrap()
LockGrid(t) ==
  /\ pc[t] = "lock_grid"
  /\ Lock(t, "grid", "lock_map")
  /\ UNCHANGED <<grid, element_map, stats, op, ret, torn>>
  /\ UNCHANGED style_vars

\* let element_map = self.element_map.lock().unwrap()
LockMap(t) ==
  /\ pc[t] = "lock_map"
  /\ Lock(t, "element_map", IF op[t].kind \in Mutations THEN "write_grid" ELSE "read")
  /\ UNCHANGED <<grid, element_map, stats, op, ret, torn>>
  /\ UNCHANGED style_vars

\* the elements a snapshot-and-rebuild call took from element_map (lock,
\* collect, unlock): update_bounds and auto_optimize
SnapshotStep(t) ==
  /\ pc[t] = "snapshot"
  /\ locks.element_map = 0
  /\ LET els == Snapshot(element_map, DOMAIN element_map)
     IN IF op[t].kind = "update_bounds"
        THEN /\ op' = [op EXCEPT ![t] = [kind |-> "update_bounds", bounds |-> op[t].bounds,
                                         elements |-> els]]
             /\ pc' = [pc EXCEPT ![t] = "read_cell_size"]
        ELSE /\ op' = [op EXCEPT ![t] =
                        [kind |-> "auto_optimize", elements |-> els, cell_size |-> 0,
                         bounds |-> Universe(DefaultBoundsSize, DefaultBoundsSize)]]
             /\ pc' = [pc EXCEPT ![t] = "lock_grid"]
  /\ UNCHANGED <<grid, element_map, stats, locks, ret, torn>>
  /\ UNCHANGED style_vars

\* update_bounds: lock grid, read cell_size, unlock; then self.rebuild(...)
ReadCellSize(t) ==
  /\ pc[t] = "read_cell_size"
  /\ locks.grid = 0
  /\ op' = [op EXCEPT ![t] = [kind |-> "update_bounds", bounds |-> op[t].bounds,
                              elements |-> op[t].elements, cell_size |-> grid.cell_size]]
  /\ pc' = [pc EXCEPT ![t] = "lock_grid"]
  /\ UNCHANGED <<grid, element_map, stats, locks, ret, torn>>
  /\ UNCHANGED style_vars

\* the grid a mutation leaves
WrittenGrid(o) ==
  CASE o.kind = "add_element" ->
         Grid_add_element(grid, o.element.id, o.element.x, o.element.y,
                          o.element.width, o.element.height)
    [] o.kind = "remove_element" -> Grid_remove_element(grid, o.element_id)
    [] o.kind = "update_element" ->
         Grid_update_element(grid, o.element_id, element_map[o.element_id], o.new_element)
    [] OTHER -> rebuild_grid(o.elements, o.bounds, o.cell_size)

\* WrittenMap with add_element's element_map.insert left out
WrittenMap_no_insert(o) ==
  CASE o.kind = "add_element" -> element_map
    [] o.kind = "remove_element" -> MapRemove(element_map, o.element_id)
    [] o.kind = "update_element" ->
         [i \in (DOMAIN element_map) \cup {o.element_id} |->
            IF i = o.element_id THEN o.new_element ELSE element_map[i]]
    [] OTHER -> rebuild_map(o.elements)

\* the element_map a mutation leaves
WrittenMap(o) ==
  CASE o.kind = "add_element" -> MapInsert(element_map, o.element)
    [] o.kind = "remove_element" -> MapRemove(element_map, o.element_id)
    [] o.kind = "update_element" ->
         [i \in (DOMAIN element_map) \cup {o.element_id} |->
            IF i = o.element_id THEN o.new_element ELSE element_map[i]]
    [] OTHER -> rebuild_map(o.elements)

\* WriteGrid with update_element of an unknown id treated as an insertion
WriteGrid_upsert(t) ==
  /\ pc[t] = "write_grid"
  /\ grid' = IF op[t].kind = "update_element" /\ op[t].element_id \notin DOMAIN element_map
             THEN Grid_add_element(grid, op[t].element_id, op[t].new_element.x,
                                   op[t].new_element.y, op[t].new_element.width,
                                   op[t].new_element.height)
             ELSE WrittenGrid(op[t])
  /\ pc' = [pc EXCEPT ![t] = "write_map"]
  /\ UNCHANGED <<element_map, stats, locks, op, ret, torn>>
  /\ UNCHANGED style_vars

\* the writes to the grid; update_element of an id element_map does not hold
\* writes nothing and returns false
WriteGrid(t) ==
  /\ pc[t] = "write_grid"
  /\ IF op[t].kind = "update_element" /\ op[t].element_id \notin DOMAIN element_map
     THEN /\ ret' = [ret EXCEPT ![t] = [kind |-> "update_element", val |-> FALSE]]
          /\ pc' = [pc EXCEPT ![t] = "return"]
          /\ UNCHANGED grid
     ELSE /\ grid' = WrittenGrid(op[t])
          /\ pc' = [pc EXCEPT ![t] = "write_map"]
          /\ UNCHANGED ret
  /\ UNCHANGED <<element_map, stats, locks, op, torn>>
  /\ UNCHANGED style_vars

\* the writes to element_map
WriteMap(t) ==
  /\ pc[t] = "write_map"
  /\ element_map' = WrittenMap(op[t])
  /\ pc' = [pc EXCEPT ![t] = "update_stats"]
  /\ UNCHANGED <<grid, stats, locks, op, ret, torn>>
  /\ UNCHANGED style_vars

\* self.update_stats(): locks grid, element_map and stats, in that order, and
\* recomputes; then the caller returns true.  Every caller still holds its own
\* grid and element_map guards when it calls it.
UpdateStats(t) ==
  /\ pc[t] = "update_stats"
  /\ IF locks.grid = t \/ (locks.grid = 0 /\ locks.element_map = t)
     THEN /\ \E o \in RelockOutcomes : pc' = [pc EXCEPT ![t] = o]
          /\ UNCHANGED <<stats, ret>>
     ELSE /\ locks.grid = 0 /\ locks.element_map = 0 /\ locks.stats = 0
          /\ stats' = compute_stats(grid, element_map, stats)
          /\ ret' = [ret EXCEPT ![t] = [kind |-> op[t].kind, val |-> TRUE]]
          /\ pc' = [pc EXCEPT ![t] = "return"]
  /\ UNCHANGED <<grid, element_map, locks, op, torn>>
  /\ UNCHANGED style_vars

\* what a query computes from grid and element_map
QueryValues(o) ==
  CASE o.kind = "query_region" ->
         {query_region(grid, element_map, o.box.x, o.box.y, o.box.width, o.box.height)}
    [] o.kind = "find_at_point" -> {find_at_point(grid, element_map, o.x, o.y)}
    [] o.kind = "find_nearest" -> find_nearest(grid, element_map, o.x, o.y, o.max_distance)
    [] OTHER -> {detect_collisions(grid, element_map, o.element)}

\* the body of a query, under both guards
QueryRead(t) ==
  /\ pc[t] = "read"
  /\ \E v \in QueryValues(op[t]) : ret' = [ret EXCEPT ![t] = [kind |-> op[t].kind, val |-> v]]
  /\ torn' = (torn \/ \E u \in Threads : pc[u] = "write_map")
  /\ pc' = [pc EXCEPT ![t] = IF op[t].kind = "query_region" THEN "lock_stats" ELSE "return"]
  /\ UNCHANGED <<grid, element_map, stats, locks, op>>
  /\ UNCHANGED style_vars

\* update_query_time, called by query_region under its two guards:
\* let mut stats = self.stats.lock().unwrap()
LockStats(t) ==
  /\ pc[t] = "lock_stats"
  /\ Lock(t, "stats", "query_time")
  /\ UNCHANGED <<grid, element_map, stats, op, ret, torn>>
  /\ UNCHANGED style_vars

\* update_query_time: store the elapsed time; the stats guard drops
update_query_time(t) ==
  /\ pc[t] = "query_time"
  /\ locks.stats = t
  /\ \E ms \in 0..MaxQueryMs : stats' = [stats EXCEPT !.last_query_time_ms = ms]
  /\ locks' = [locks EXCEPT !.stats = 0]
  /\ pc' = [pc EXCEPT ![t] = "return"]
  /\ UNCHANGED <<grid, element_map, op, ret, torn>>
  /\ UNCHANGED style_vars

\* the call returns: its guards drop
Return(t) ==
  /\ pc[t] = "return"
  /\ locks' = [k \in DOMAIN locks |-> IF locks[k] = t THEN 0 ELSE locks[k]]
  /\ pc' = [pc EXCEPT ![t] = "idle"]
  /\ op' = [op EXCEPT ![t] = NoOp]
  /\ UNCHANGED <<grid, element_map, stats, ret, torn>>
  /\ UNCHANGED style_vars

Next ==
  \E t \in Threads :
    \/ add_element(t)
    \/ remove_element(t)
    \/ update_element(t)
    \/ rebuild(t)
    \/ update_bounds(t)
    \/ query_region_call(t)
    \/ find_at_point_call(t)
    \/ find_nearest_call(t)
    \/ detect_collisions_call(t)
    \/ get_stats(t)
    \/ auto_optimize(t)
    \/ LockGrid(t)
    \/ LockMap(t)
    \/ SnapshotStep(t)
    \/ ReadCellSize(t)
    \/ WriteGrid(t)
    \/ WriteMap(t)
    \/ UpdateStats(t)
    \/ QueryRead(t)
    \/ LockStats(t)
    \/ update_query_time(t)
    \/ Return(t)

Spec == Init /\ [][Next]_vars
SpecConc == InitConc /\ [][Next]_vars

\* ---------------------------------------------------- StyleHistory calls
add_style ==
  /\ \E style \in Styles :
       /\ entries' = add_style_entries(entries, max_entries, style)
       /\ appended' = IF add_style_skips(entries, style) THEN appended
                      ELSE LastN(Append(appended, style), MaxEntriesTried)
       /\ call' = [kind |-> "add_style", style |-> style, before |-> entries]
  /\ UNCHANGED max_entries
  /\ UNCHANGED index_vars

clear ==
  /\ entries' = <<>>
  /\ appended' = <<>>
  /\ call' = [kind |-> "clear", before |-> entries]
  /\ UNCHANGED max_entries
  /\ UNCHANGED index_vars

import_from_base64 ==
  /\ \E data \in ImportData :
       /\ entries' = IF data.ok THEN import_entries(data.decoded, max_entries) ELSE entries
       /\ appended' = IF data.ok THEN LastN(data.decoded, MaxEntriesTried) ELSE appended
       /\ call' = [kind |-> "import_from_base64", ok |-> data.ok, before |-> entries]
  /\ UNCHANGED max_entries
  /\ UNCHANGED index_vars

NextStyle ==
  \/ add_style
  \/ clear
  \/ import_from_base64

SpecStyle == InitStyle /\ [][NextStyle]_vars


\* ================================================================ claims
\* no mutation stands between its write to the grid and its write to element_map
DataSettled == \A t \in Threads : pc[t] # "write_map"
\* the cells that hold id
CellsOf(id) == {rc \in DOMAIN grid.cells : id \in grid.cells[rc]}
\* the mutation of t has made its writes
Written(t) == pc[t] \in {"update_stats", "blocked", "panicked", "return"}
InBody(t) == pc[t] \in {"lock_grid", "lock_map", "write_grid", "write_map", "update_stats"}
QueryKinds == {"query_region", "find_at_point", "find_nearest", "detect_collisions"}

\* C1: every addItem, removeItem, updateItem and rebuild call of a single
\* caller runs to completion: it never ends blocked on a guard or in a panic,
\* and a caller that is back from its call holds no guard.
C1_MutationsComplete ==
  \A t \in Threads :
    /\ pc[t] \notin RelockOutcomes
    /\ pc[t] = "idle" => \A k \in DOMAIN locks : locks[k] # t

\* C2: for every id in the Registry, the cells that hold the id are exactly
\* the cells get_intersecting_cells yields for its current Registry box.
C2_MembershipMatchesRegistry ==
  DataSettled =>
    \A id \in DOMAIN element_map :
      CellsOf(id) = get_intersecting_cells(grid, element_map[id].x, element_map[id].y,
                                           element_map[id].width, element_map[id].height)

\* C3: every id that is a member of a Grid cell is a key of the Registry;
\* after removeItem(id) has written, id is in no cell and not in the Registry;
\* after rebuild has written, only ids of its element list are indexed.
C3_CellIdsAreRegistered ==
  DataSettled =>
    /\ \A rc \in DOMAIN grid.cells : grid.cells[rc] \subseteq DOMAIN element_map
    /\ \A t \in Threads :
         /\ (op[t].kind = "remove_element" /\ Written(t)) =>
              (op[t].element_id \notin DOMAIN element_map /\ CellsOf(op[t].element_id) = {})
         /\ (op[t].kind = "rebuild" /\ Written(t)) =>
              DOMAIN element_map = {op[t].elements[i].id : i \in 1..Len(op[t].elements)}

\* C3 witness: a rebuild has indexed two items, one of them in several cells
C3_Witness ==
  /\ \E t \in Threads : op[t].kind = "rebuild" /\ Written(t)
  /\ Cardinality(DOMAIN element_map) = 2
  /\ \E id \in DOMAIN element_map : Cardinality(CellsOf(id)) > 1

\* C4: no query reads grid and element_map while a mutation running on
\* another execution context has written one of them and not yet the other.
C4_NoTornRead == torn = FALSE

\* C4 witness: an addItem has written the grid and not yet element_map while
\* a query issued on the other execution context is in flight
C4_Witness ==
  \E t \in Threads, u \in Threads :
    /\ t # u
    /\ op[t].kind = "add_element" /\ pc[t] = "write_map"
    /\ op[u].kind \in QueryKinds /\ pc[u] = "lock_grid"

\* C5: updateBounds and autoOptimize are serialized with every other call:
\* from the moment one of them has taken its list of current items until it
\* installs that list, the Registry is not changed by another call.
C5_RebuildSerialized ==
  \A t \in Threads :
    (op[t].kind \in {"update_bounds", "auto_optimize"}
       /\ pc[t] \in {"read_cell_size", "lock_grid", "lock_map", "write_grid"}) =>
      /\ Len(op[t].elements) = Cardinality(DOMAIN element_map)
      /\ op[t].elements = Snapshot(element_map, DOMAIN element_map)

\* C6: an item added with box B (width, height >= 0) is in queryRegion(B)
\* computed on the index the addItem leaves.
C6_Containment ==
  \A t \in Threads :
    (op[t].kind = "add_element" /\ Written(t)) =>
      query_region(grid, element_map, op[t].element.x, op[t].element.y,
                   op[t].element.width, op[t].element.height)[op[t].element.id] >= 1

\* a point of the universe the grid covers
InUniverse(p) ==
  /\ grid.bounds.x <= p.x /\ p.x < grid.bounds.x + grid.bounds.width
  /\ grid.bounds.y <= p.y /\ p.y < grid.bounds.y + grid.bounds.height

\* C7: for every point inside the universe and every indexed item,
\* findAtPoint returns the item iff the point passes the inclusive test.
C7_PointSemantics ==
  DataSettled =>
    \A id \in DOMAIN element_map : \A p \in Points :
      InUniverse(p) =>
        ((find_at_point(grid, element_map, p.x, p.y)[id] >= 1) <=>
           point_in_element(p.x, p.y, element_map[id].x, element_map[id].y,
                            element_map[id].width, element_map[id].height))

\* C8: for an indexed item, detectCollisions returns exactly what
\* queryRegion(item.box) returns minus the item itself, each item once.
C8_CollisionsAreQueryMinusSelf ==
  DataSettled =>
    \A id \in DOMAIN element_map :
      LET e == element_map[id]
      IN \A j \in Ids :
           detect_collisions(grid, element_map, e)[j] =
             IF j = e.id THEN 0
             ELSE query_region(grid, element_map, e.x, e.y, e.width, e.height)[j]

\* the clamped point-to-rectangle distance, squared
ClampedDistance(px, py, e) ==
  LET dx == Max(Max(e.x - px, 0), px - (e.x + e.width))
      dy == Max(Max(e.y - py, 0), py - (e.y + e.height))
  IN dx * dx + dy * dy

\* C9: the distance findNearest assigns to an item is the clamped
\* point-to-rectangle distance (zero inside the box).
C9_ClampedDistance ==
  \A id \in DOMAIN element_map : \A p \in Points :
    distance_to_element(p.x, p.y, element_map[id]) = ClampedDistance(p.x, p.y, element_map[id])

\* C10: a removeItem of an id that is not indexed ends by returning false.
C10_RemoveUnknownReturnsFalse ==
  \A t \in Threads :
    (op[t].kind = "remove_element" /\ op[t].element_id \notin DOMAIN element_map
       /\ ~InBody(t)) =>
      (pc[t] = "return" /\ ret[t].val = FALSE)

\* C11: an updateItem of an id that is not in the Registry changes neither
\* the Grid, the Registry nor the Statistics at any of its steps, returns
\* false, and hands back its guards.
C11_UpdateUnknownFails ==
  [][\A t \in Threads :
       (/\ op[t].kind = "update_element"
        /\ op[t].element_id \notin DOMAIN element_map
        /\ pc[t] \in {"lock_grid", "lock_map", "write_grid", "return"}) =>
         /\ grid' = grid /\ element_map' = element_map /\ stats' = stats
         /\ pc'[t] \notin RelockOutcomes
         /\ pc[t] = "write_grid" =>
              (pc'[t] = "return" /\ ret'[t] = [kind |-> "update_element", val |-> FALSE])
         /\ pc[t] = "return" =>
              (pc'[t] = "idle" /\ \A k \in DOMAIN locks : locks'[k] # t)]_vars

\* C11 witness: an updateItem of an unknown id has returned false
C11_Witness ==
  \E t \in Threads :
    /\ pc[t] = "idle"
    /\ ret[t] = [kind |-> "update_element", val |-> FALSE]
    /\ \A k \in DOMAIN locks : locks[k] = 0

\* no call is running: every caller is between calls, or its call was ended
\* by a panic
NoCallInProgress ==
  \A t \in Threads : pc[t] \in {"idle", "absent", "panicked", "new_panicked"}

\* C12: whenever no call is in progress, the statistics equal the values
\* derived from the current Grid and Registry (totalItems, totalCells,
\* occupiedCells, maxItemsPerCell, avgItemsPerOccupiedCell).
C12_StatsAreDerived ==
  (NoCallInProgress /\ Constructed) => stats = compute_stats(grid, element_map, stats)

\* C13: construction does not fail, and the grid of the manager has a
\* positive cell size and finite rows and cols, whatever cell size was asked.
C13_ConstructionSubstitutesDefault ==
  /\ Constructed
  /\ grid.cell_size > 0
  /\ grid.rows < UsizeMax /\ grid.cols < UsizeMax

\* C14: for every pair of indexed items A and B, A is in detectCollisions(B)
\* if and only if B is in detectCollisions(A).
C14_CollisionSymmetry ==
  DataSettled =>
    \A a \in DOMAIN element_map : \A b \in DOMAIN element_map :
      (detect_collisions(grid, element_map, element_map[a])[b] >= 1) <=>
        (detect_collisions(grid, element_map, element_map[b])[a] >= 1)

\* the overlap test on open intervals
Overlap(a, b) ==
  /\ a.x < b.x + b.width /\ b.x < a.x + a.width
  /\ a.y < b.y + b.height /\ b.y < a.y + a.height

\* the candidate cells of region b hold id
InCandidateCell(id, b) ==
  \E rc \in get_intersecting_cells(grid, b.x, b.y, b.width, b.height) : id \in grid.cells[rc]

\* the index between calls and as a mutation leaves it, its writes made (no
\* later step of the mutation changes the Grid or the Registry)
IndexWritten == \A t \in Threads : pc[t] \in {"idle", "absent", "update_stats"}

\* C15: on the index between calls and on the index a mutation leaves,
\* queryRegion(R) never returns an item whose Registry box fails the
\* open-interval overlap test against R.
C15_Exclusion ==
  (Constructed /\ IndexWritten) =>
    \A b \in Boxes :
      LET found == query_region(grid, element_map, b.x, b.y, b.width, b.height)
      IN \A id \in Ids :
           found[id] >= 1 => (id \in DOMAIN element_map /\ Overlap(element_map[id], b))

\* C15 witness: an indexed item touches a region along an edge, shares a
\* candidate cell with it and is not returned
C15_Witness ==
  /\ Constructed /\ IndexWritten
  /\ \E b \in Boxes : \E id \in DOMAIN element_map :
       /\ element_map[id].width > 0 /\ b.width > 0
       /\ element_map[id].x + element_map[id].width = b.x
       /\ element_map[id].y < b.y + b.height /\ b.y < element_map[id].y + element_map[id].height
       /\ InCandidateCell(id, b)
       /\ query_region(grid, element_map, b.x, b.y, b.width, b.height)[id] = 0

\* C16: on the index between calls and on the index a mutation leaves,
\* queryRegion returns no item more than once, and an item whose Registry box
\* overlaps the region and whose id is in a candidate cell exactly once.
C16_NoDuplicates ==
  (Constructed /\ IndexWritten) =>
    \A b \in Boxes :
      LET found == query_region(grid, element_map, b.x, b.y, b.width, b.height)
      IN \A id \in Ids :
           /\ found[id] <= 1
           /\ (id \in DOMAIN element_map /\ Overlap(element_map[id], b)
                 /\ InCandidateCell(id, b)) => found[id] = 1

\* C16 witness: an item that is a member of several candidate cells of a
\* region is returned once
C16_Witness ==
  /\ Constructed /\ IndexWritten
  /\ \E b \in Boxes : \E id \in DOMAIN element_map :
       /\ Cardinality({rc \in get_intersecting_cells(grid, b.x, b.y, b.width, b.height) :
                         id \in grid.cells[rc]}) > 1
       /\ query_region(grid, element_map, b.x, b.y, b.width, b.height)[id] = 1

\* the elements of a list have pairwise distinct ids
DistinctIds(l) == \A i \in 1..Len(l) : \A j \in 1..Len(l) : i # j => l[i].id # l[j].id

\* C17: once rebuild(S, bounds, cs) has written, for S with distinct ids, the
\* Registry holds exactly the items of S, with their ids and boxes.
C17_RebuildPreservesItems ==
  \A t \in Threads :
    (op[t].kind = "rebuild" /\ Written(t) /\ DistinctIds(op[t].elements)) =>
      /\ DOMAIN element_map = {op[t].elements[i].id : i \in 1..Len(op[t].elements)}
      /\ \A i \in 1..Len(op[t].elements) :
           element_map[op[t].elements[i].id] = op[t].elements[i]

\* C17 witness: a rebuild of two items with distinct ids and a negative cell
\* size has written, and the grid got a computed cell size
C17_Witness ==
  \E t \in Threads :
    /\ op[t].kind = "rebuild" /\ Written(t) /\ DistinctIds(op[t].elements)
    /\ Len(op[t].elements) >= 2
    /\ op[t].cell_size < 0 /\ grid.cell_size > 0

\* C18: a call of autoOptimize on an index that holds more than 1000 items
\* and whose occupancy passes a threshold (more than 100 items per occupied
\* cell on average, or more than 200 in one cell) goes on to rebuild: it does
\* not return false.
C18_AutoOptimizeTriggers ==
  [][\A t \in Threads :
       (/\ auto_optimize(t)
        /\ \A u \in Threads : ~InBody(u)
        /\ NeedsOptimize(compute_stats(grid, element_map, stats))) =>
         pc'[t] = "snapshot"]_vars

\* C19: a call of autoOptimize on an index that holds at most 1000 items
\* returns false and changes neither the Grid nor the Registry.
C19_AutoOptimizeGated ==
  [][\A t \in Threads :
       (auto_optimize(t) /\ Cardinality(DOMAIN element_map) <= OptimizeMinElements) =>
         /\ ret'[t] = [kind |-> "auto_optimize", val |-> FALSE]
         /\ pc'[t] = "idle"
         /\ grid' = grid /\ element_map' = element_map]_vars

\* C19 witness: autoOptimize has returned false to a caller while the other
\* caller's addItem has left an item in a cell of the index
C19_Witness ==
  \E t \in Threads, u \in Threads :
    /\ pc[t] = "idle" /\ ret[t] = [kind |-> "auto_optimize", val |-> FALSE]
    /\ op[u].kind = "add_element" /\ pc[u] \in RelockOutcomes
    /\ Cardinality(DOMAIN element_map) = 1
    /\ \E rc \in DOMAIN grid.cells : grid.cells[rc] # {}

\* C20: once updateBounds(newBounds) has written, the grid has the cell size
\* the index had before the call and the universe newBounds, the Registry
\* holds the items it held before the call, and every item is a member of
\* exactly the cells of its box in the new universe.
C20_UpdateBoundsIsRebuild ==
  \A t \in Threads :
    (op[t].kind = "update_bounds" /\ Written(t)) =>
      /\ grid.cell_size = op[t].cell_size
      /\ grid.bounds = op[t].bounds
      /\ element_map = rebuild_map(op[t].elements)
      /\ \A id \in DOMAIN element_map :
           CellsOf(id) = get_intersecting_cells(grid, element_map[id].x, element_map[id].y,
                                                element_map[id].width, element_map[id].height)

\* C21: rebuild called with a cell size that is zero or negative installs a
\* grid whose cell size lies in [50, 500]: 100 for an empty list, and otherwise
\* the root of ten times the mean item area, clamped to 50 and 500; rebuild
\* called with a positive cell size installs exactly that cell size.
C21_RebuildCellSize ==
  \A t \in Threads :
    (op[t].kind = "rebuild" /\ Written(t)) =>
      LET n == Len(op[t].elements)
          area10 == SumArea(op[t].elements, 1) * 10
          r == grid.cell_size
      IN IF op[t].cell_size > 0 THEN r = op[t].cell_size
         ELSE IF n = 0 THEN r = 100
         ELSE /\ r \in 50..500
              /\ r > 50 => r * r * n <= area10
              /\ r < 500 => area10 < (r + 1) * (r + 1) * n

\* a rebuild that computed a cell size strictly between the two clamps
C21_Witness ==
  \E t \in Threads :
    /\ op[t].kind = "rebuild" /\ Written(t)
    /\ op[t].cell_size <= 0
    /\ grid.cell_size > MinCellSize /\ grid.cell_size < MaxCellSize

\* the query points and distance limits findNearest is tried with: every x,
\* on the top edge of the row of items and below it; a short and a long limit
NearestPoints == {p \in Points : p.y \in {0, BoxHeight + 1}}
NearestLimits == {1, MaxDist}

\* C22: on the index between calls and on the index a mutation leaves,
\* findNearest(x, y, maxDistance) returns none when the index is empty or when
\* no indexed item lies within maxDistance of the point, and it never returns
\* an item whose point-to-rectangle distance from (x, y) exceeds maxDistance.
C22_NearestWithinMaxDistance ==
  (Constructed /\ IndexWritten) =>
    \A p \in NearestPoints : \A d \in NearestLimits :
      LET found == find_nearest(grid, element_map, p.x, p.y, d)
          within == {id \in DOMAIN element_map :
                       ClampedDistance(p.x, p.y, element_map[id]) <= d * d}
      IN /\ within = {} => found = {0}
         /\ found \subseteq within \cup {0}

\* C22 witness: on a written index holding an item, findNearest returns the
\* item for one point and none for a point with the same distance limit that
\* has the item out of reach
C22_Witness ==
  /\ Constructed /\ IndexWritten
  /\ \E id \in DOMAIN element_map : \E p, q \in NearestPoints : \E d \in NearestLimits :
       /\ find_nearest(grid, element_map, p.x, p.y, d) = {id}
       /\ get_cell_coords(grid, q.x, q.y) # {}
       /\ ClampedDistance(q.x, q.y, element_map[id]) > d * d
       /\ find_nearest(grid, element_map, q.x, q.y, d) = {0}

\* the area of cell rc of the grid meets box b
CellMeetsBox(rc, b) ==
  /\ grid.bounds.x + rc[2] * grid.cell_size < b.x + b.width
  /\ b.x < grid.bounds.x + (rc[2] + 1) * grid.cell_size
  /\ grid.bounds.y + rc[1] * grid.cell_size < b.y + b.height
  /\ b.y < grid.bounds.y + (rc[1] + 1) * grid.cell_size

\* get_intersecting_cells yields, for every box, only cells of the grid
C23_CellsInRange ==
  Constructed =>
    \A b \in Boxes :
      \A rc \in get_intersecting_cells(grid, b.x, b.y, b.width, b.height) :
        rc[1] < grid.rows /\ rc[2] < grid.cols /\ rc \in DOMAIN grid.cells

\* an item added to the index is a member only of cells its box meets
C23_MemberOfMetCells ==
  \A t \in Threads :
    (op[t].kind = "add_element" /\ Written(t)) =>
      \A rc \in CellsOf(op[t].element.id) : CellMeetsBox(rc, BoxOf(op[t].element))

\* no addItem, updateItem, queryRegion or detectCollisions call fails
C23_CallsNeverFail ==
  \A t \in Threads :
    op[t].kind \in {"add_element", "update_element", "query_region", "detect_collisions"} =>
      pc[t] \notin RelockOutcomes

\* C23: for every box, inside the universe or not, intersectingCells returns
\* only coordinates with row < rows and col < cols; addItem, updateItem,
\* queryRegion and detectCollisions never fail; an added item becomes a member
\* only of existing cells that its box overlaps.
C23_InRangeAndNeverFails ==
  C23_CellsInRange /\ C23_MemberOfMetCells /\ C23_CallsNeverFail

\* the point lies outside the universe of the grid, as the spec lists it
OutsideUniverse(p) ==
  \/ p.x < grid.bounds.x
  \/ p.y < grid.bounds.y
  \/ Floor(p.x - grid.bounds.x, grid.cell_size) >= grid.cols
  \/ Floor(p.y - grid.bounds.y, grid.cell_size) >= grid.rows

\* cellCoordinates is none outside the universe and the floored quotients inside
C24_CoordsOfPoint ==
  (Constructed /\ grid.cell_size > 0) =>
    \A p \in Points :
      get_cell_coords(grid, p.x, p.y) =
        IF OutsideUniverse(p) THEN {}
        ELSE {<<Floor(p.y - grid.bounds.y, grid.cell_size),
                Floor(p.x - grid.bounds.x, grid.cell_size)>>}

\* findAtPoint and findNearest find nothing at a point left of or above the universe
C24_NothingLeftOrAbove ==
  (Constructed /\ grid.cell_size > 0 /\ IndexWritten) =>
    \A p \in Points :
      (p.x < grid.bounds.x \/ p.y < grid.bounds.y) =>
        /\ \A id \in Ids : find_at_point(grid, element_map, p.x, p.y)[id] = 0
        /\ \A d \in 0..MaxDist : find_nearest(grid, element_map, p.x, p.y, d) = {0}

\* C24: cellCoordinates(x, y) is none for every point outside the universe
\* (x < bounds.x, y < bounds.y, column index >= cols or row index >= rows) and
\* otherwise (floor((y - bounds.y) / cellSize), floor((x - bounds.x) / cellSize));
\* findAtPoint and findNearest at a point left of or above the universe
\* inspect no cell, so they find nothing.
C24_OutsideIsNone ==
  C24_CoordsOfPoint /\ C24_NothingLeftOrAbove

\* the ring of cell rc around the start cell
RingOf(rc, start) == Max(Abs(rc[1] - start[1]), Abs(rc[2] - start[2]))

\* C27: when the ring search of findNearest stops after ring r because a
\* candidate exists with minDistanceSoFar <= r * cellSize, no indexed item
\* that is a member only of cells in rings greater than r has a smaller
\* distance (as findNearest computes it) to the query point than the
\* returned item.
C27_EarlyExitLosesNothing ==
  (Constructed /\ grid.cell_size > 0 /\ IndexWritten) =>
    \A p \in Points : \A d \in 0..MaxDist :
      \A start \in get_cell_coords(grid, p.x, p.y) :
        LET scan == find_nearest_scan(grid, element_map, p.x, p.y, start,
                      UsizeOf(Ceil(d, grid.cell_size)), 0,
                      [min |-> d * d, nearest |-> {}])
        IN scan.early =>
             \A id \in DOMAIN element_map :
               (CellsOf(id) # {} /\ \A rc \in CellsOf(id) : RingOf(rc, start) > scan.radius) =>
                 distance_to_element(p.x, p.y, element_map[id]) >= scan.min

\* the place of a guard in the order Grid, Registry, Statistics
Rank(k) == CASE k = "grid" -> 1 [] k = "element_map" -> 2 [] OTHER -> 3

\* the guards the next step of t needs to find free
Wanted(t) ==
  CASE pc[t] \in {"lock_grid", "update_stats", "read_cell_size"} -> {"grid"}
    [] pc[t] \in {"lock_map", "snapshot"} -> {"element_map"}
    [] pc[t] = "lock_stats" -> {"stats"}
    [] OTHER -> {}

\* t waits for a guard that u holds
WaitsFor(t, u) == \E k \in Wanted(t) : locks[k] = u

\* C28: a call that takes a guard while it holds others holds only guards
\* that come earlier in the order Grid, Registry, Statistics; and no two
\* calls on different execution contexts wait for each other.
C28_LockOrder ==
  /\ [](\A t \in Threads : \A u \in Threads \ {t} : ~(WaitsFor(t, u) /\ WaitsFor(u, t)))
  /\ [][\A t \in Threads : \A k \in DOMAIN locks :
         (locks[k] # t /\ locks'[k] = t) =>
           \A j \in DOMAIN locks : locks[j] = t => Rank(j) < Rank(k)]_vars

\* C28 witness: one call holds all three guards while the call of the other
\* context waits for one of them
C28_Witness ==
  \E t \in Threads : \E u \in Threads \ {t} :
    /\ \A k \in DOMAIN locks : locks[k] = t
    /\ WaitsFor(u, t)

\* box e has positive width and height and lies inside the bounds
InsideBounds(e, bounds) ==
  /\ e.width > 0 /\ e.height > 0
  /\ bounds.x <= e.x /\ e.x + e.width <= bounds.x + bounds.width
  /\ bounds.y <= e.y /\ e.y + e.height <= bounds.y + bounds.height

\* the ids queryRegion and detectCollisions return for box b on index (g, m)
FoundIn(g, m, b) ==
  LET found == query_region(g, m, b.x, b.y, b.width, b.height)
  IN {id \in Ids : found[id] >= 1}
CollidingIn(g, m, e) ==
  LET found == detect_collisions(g, m, e)
  IN {id \in Ids : found[id] >= 1}

\* C29: for a list of items with distinct ids whose boxes have positive
\* width and height and lie inside the universe, the index rebuild leaves and
\* the index rebuild builds over the same items and bounds with any other
\* positive cell size return the same set of items for every query box, from
\* queryRegion and from detectCollisions.
C29_CellSizeIndependence ==
  \A t \in Threads :
    (/\ op[t].kind = "rebuild" /\ pc[t] = "update_stats"
     /\ op[t].cell_size > 0
     /\ DistinctIds(op[t].elements)
     /\ \A i \in DOMAIN op[t].elements : InsideBounds(op[t].elements[i], op[t].bounds)) =>
      \A cs \in 1..UniverseSize :
        LET other == rebuild_grid(op[t].elements, op[t].bounds, cs)
        IN /\ \A b \in Boxes : FoundIn(grid, element_map, b) = FoundIn(other, element_map, b)
           /\ \A e \in Elements :
                CollidingIn(grid, element_map, e) = CollidingIn(other, element_map, e)

\* C25 as the spec states it, for every limit N: len() <= N, the history is
\* the last N styles put into it, in insertion order, and get_last_style
\* returns the style appended last.
C25_BoundedFifo ==
  /\ Len(entries) <= max_entries
  /\ entries = LastN(appended, max_entries)
  /\ appended # <<>> => get_last_style(entries) = {appended[Len(appended)]}

\* C25: after any sequence of add_style, clear and import_from_base64 calls
\* on a history created with max_entries = N, len() <= N and the history is
\* the last N styles put into it, oldest first (an add beyond N evicts the
\* oldest entry); if N >= 1, get_last_style returns the style appended last.
C25_BoundedFifoPositiveLimit ==
  /\ Len(entries) <= max_entries
  /\ entries = LastN(appended, max_entries)
  /\ (max_entries >= 1 /\ appended # <<>>) =>
       get_last_style(entries) = {appended[Len(appended)]}

\* C25 witness: an add_style on a full history of limit N >= 1 has evicted
\* the oldest entry and put its style last
C25_Witness ==
  /\ max_entries >= 1
  /\ call.kind = "add_style"
  /\ Len(call.before) = max_entries /\ Len(entries) = max_entries
  /\ entries # call.before
  /\ get_last_style(entries) = {call.style}

\* C26: on a history of limit N >= 1, add_style leaves the history unchanged
\* if and only if the new style is identical to the most recent entry; a
\* style that is not (it differs from the last entry in some field, or equals
\* only an older entry, or the history is empty) is appended.
C26_SkipsOnlyIdentical ==
  (call.kind = "add_style" /\ max_entries >= 1) =>
    LET identical == get_last_style(call.before) = {call.style}
    IN /\ (entries = call.before) <=> identical
       /\ ~identical => get_last_style(entries) = {call.style}

====
